---------------------------- MODULE Spec2Model ----------------------------
(***************************************************************************)
(* Model of the IoT predictive-maintenance anomaly detector                *)
(* (src/src/detector.py) and of its AWS Lambda entry point                 *)
(* (src/src/lambda_function.py).                                           *)
(*                                                                         *)
(* The detector computes on numpy float64 arrays.  Its branches compare    *)
(* computed floating-point values with zero (mad == 0, std == 0), so the   *)
(* model computes in IEEE 754 binary64 with round-to-nearest-even: a       *)
(* float is a record [cls, neg, m, e] standing for (-1)^neg * m * 2^e,     *)
(* m a natural number of at most 53 bits held as a sequence of limbs.      *)
(* The arithmetic is written as functions, whose arguments TLC evaluates   *)
(* once, before the function is applied.                                   *)
(***************************************************************************)
EXTENDS Integers, Sequences, FiniteSets, TLC

(***************************************************************************)
(* Natural numbers of any size: little-endian sequences of limbs in        *)
(* 0 .. Base - 1 without a leading zero limb; zero is the empty sequence.  *)
(***************************************************************************)
LimbBits == 15
Base == 2 ^ LimbBits
BigNat == Seq(Nat)

Max(x, y) == IF x >= y THEN x ELSE y

Limb(a, i) == IF i <= Len(a) THEN a[i] ELSE 0

Trim[a \in BigNat] ==
    IF a = <<>> \/ a[Len(a)] # 0 THEN a ELSE Trim[SubSeq(a, 1, Len(a) - 1)]

NatToBig[n \in Nat] == IF n = 0 THEN <<>> ELSE <<n % Base>> \o NatToBig[n \div Base]

BigOne == <<1>>

AddFrom[a \in BigNat, b \in BigNat, i \in Nat, c \in Nat] ==
    IF i > Len(a) /\ i > Len(b)
    THEN (IF c = 0 THEN <<>> ELSE <<c>>)
    ELSE LET s == Limb(a, i) + Limb(b, i) + c
         IN  <<s % Base>> \o AddFrom[a, b, i + 1, s \div Base]

BigAdd[a \in BigNat, b \in BigNat] == AddFrom[a, b, 1, 0]

SubFrom[a \in BigNat, b \in BigNat, i \in Nat, c \in Nat] ==
    IF i > Len(a)
    THEN <<>>
    ELSE LET d == a[i] - Limb(b, i) - c
         IN  <<d % Base>> \o SubFrom[a, b, i + 1, IF d < 0 THEN 1 ELSE 0]

\* a - b for a >= b
BigSub[a \in BigNat, b \in BigNat] == Trim[SubFrom[a, b, 1, 0]]

CmpFrom[a \in BigNat, b \in BigNat, i \in Nat] ==
    IF i = 0 THEN 0
    ELSE IF a[i] # b[i] THEN (IF a[i] < b[i] THEN -1 ELSE 1)
    ELSE CmpFrom[a, b, i - 1]

\* -1, 0 or 1 as a < b, a = b or a > b
BigCmp[a \in BigNat, b \in BigNat] ==
    IF Len(a) # Len(b) THEN (IF Len(a) < Len(b) THEN -1 ELSE 1)
    ELSE CmpFrom[a, b, Len(a)]

MulFrom[a \in BigNat, k \in Nat, i \in Nat, c \in Nat] ==
    IF i > Len(a)
    THEN (IF c = 0 THEN <<>> ELSE <<c>>)
    ELSE LET p == a[i] * k + c
         IN  <<p % Base>> \o MulFrom[a, k, i + 1, p \div Base]

\* a * k for 0 <= k <= Base
BigMulSmall[a \in BigNat, k \in Nat] == IF k = 0 THEN <<>> ELSE MulFrom[a, k, 1, 0]

ShiftLimbs[a \in BigNat, q \in Nat] ==
    IF a = <<>> THEN a ELSE [i \in 1 .. q |-> 0] \o a

MulAcc[a \in BigNat, b \in BigNat, j \in Nat] ==
    IF j > Len(b) THEN <<>>
    ELSE BigAdd[ShiftLimbs[BigMulSmall[a, b[j]], j - 1], MulAcc[a, b, j + 1]]

BigMul[a \in BigNat, b \in BigNat] == MulAcc[a, b, 1]

\* a * 2^k
Shl[a \in BigNat, k \in Nat] ==
    ShiftLimbs[BigMulSmall[a, 2 ^ (k % LimbBits)], k \div LimbBits]

\* a \div 2^k
Shr[a \in BigNat, k \in Nat] ==
    LET q == k \div LimbBits
        p == 2 ^ (k % LimbBits)
        n == Len(a) - q
    IN  IF n <= 0 THEN <<>>
        ELSE Trim[[i \in 1 .. n |->
                     (a[q + i] \div p) + (Limb(a, q + i + 1) % p) * (Base \div p)]]

\* a % 2^k
Low[a \in BigNat, k \in Nat] ==
    LET q == k \div LimbBits
    IN  IF Len(a) <= q THEN a
        ELSE Trim[SubSeq(a, 1, q) \o <<a[q + 1] % (2 ^ (k % LimbBits))>>]

SmallBitLen[n \in Nat] == IF n = 0 THEN 0 ELSE 1 + SmallBitLen[n \div 2]

BitLen[a \in BigNat] ==
    IF a = <<>> THEN 0 ELSE (Len(a) - 1) * LimbBits + SmallBitLen[a[Len(a)]]

\* bit i of a, bit 0 the lowest
Bit(a, i) == (Limb(a, i \div LimbBits + 1) \div (2 ^ (i % LimbBits))) % 2

IsOdd(a) == a # <<>> /\ a[1] % 2 = 1

\* 2 * a + bit
Twice[a \in BigNat, bit \in 0 .. 1] ==
    IF a = <<>> THEN (IF bit = 0 THEN a ELSE BigOne)
    ELSE [BigMulSmall[a, 2] EXCEPT ![1] = @ + bit]

\* Long division, one bit of n at a time: bits i-1 .. 0 of n are still to come,
\* q and r are the quotient and the remainder of the bits above them.  The
\* result is 2 * (n \div d), plus one when the remainder is not zero: the last
\* bit says whether the quotient is exact, which is all that rounding needs.
DivFrom[n \in BigNat, d \in BigNat, i \in Nat, q \in BigNat, r \in BigNat] ==
    IF i = 0 THEN Twice[q, IF r = <<>> THEN 0 ELSE 1]
    ELSE LET r2 == Twice[r, Bit(n, i - 1)]
         IN  IF BigCmp[r2, d] >= 0
             THEN DivFrom[n, d, i - 1, Twice[q, 1], BigSub[r2, d]]
             ELSE DivFrom[n, d, i - 1, Twice[q, 0], r2]

\* the leading bits of n that are below d give no quotient bit: they are the
\* first remainder
BigDiv[n \in BigNat, d \in BigNat] ==
    LET i == Max(0, BitLen[n] - BitLen[d] + 1)
    IN  DivFrom[n, d, i, <<>>, Shr[n, i]]

\* Integer square root by the digit-by-digit method; the result is twice the
\* root, plus one when n is not a square.
SqrtFrom[n \in BigNat, res \in BigNat, p \in Int] ==
    IF p < 0 THEN Twice[res, IF n = <<>> THEN 0 ELSE 1]
    ELSE LET bit == Shl[BigOne, 2 * p]
             t == BigAdd[res, bit]
         IN  IF BigCmp[n, t] >= 0
             THEN SqrtFrom[BigSub[n, t], BigAdd[Shr[res, 1], bit], p - 1]
             ELSE SqrtFrom[n, Shr[res, 1], p - 1]

BigSqrt[n \in BigNat] ==
    IF n = <<>> THEN n ELSE SqrtFrom[n, <<>>, (BitLen[n] - 1) \div 2]

(***************************************************************************)
(* IEEE 754 binary64.                                                      *)
(***************************************************************************)
Precision == 53       \* bits of the significand
MinExp == -1074       \* exponent of the last bit of a subnormal
MaxExp == 971         \* largest exponent of the last bit of a finite float

Float == [cls : {"fin", "inf", "nan"}, neg : BOOLEAN, m : BigNat, e : Int]

NaN == [cls |-> "nan", neg |-> FALSE, m |-> <<>>, e |-> 0]
Inf(neg) == [cls |-> "inf", neg |-> neg, m |-> <<>>, e |-> 0]
Zero(neg) == [cls |-> "fin", neg |-> neg, m |-> <<>>, e |-> 0]

IsNaN(x) == x.cls = "nan"
IsInf(x) == x.cls = "inf"
IsFinite(x) == x.cls = "fin"
IsZero(x) == x.cls = "fin" /\ x.m = <<>>

Pack(neg, m, e) ==
    IF m = <<>> THEN Zero(neg)
    ELSE IF e > MaxExp THEN Inf(neg)
    ELSE [cls |-> "fin", neg |-> neg, m |-> m, e |-> e]

\* q or q + 1: q is a quotient cut off below its last bit, and c is -1, 0 or 1
\* as what was cut off is less than, equal to or more than half of that bit.
\* Ties go to the even neighbour.
Nearest[q \in BigNat, c \in Int] ==
    IF c > 0 \/ (c = 0 /\ IsOdd(q)) THEN BigAdd[q, BigOne] ELSE q

\* N / 2^k for k >= 1, rounded to the nearest integer, ties to even
ShrRound[N \in BigNat, k \in Nat] ==
    Nearest[Shr[N, k], BigCmp[Low[N, k], Shl[BigOne, k - 1]]]

\* rounding up may carry into a 54th bit
Carry[neg \in BOOLEAN, m \in BigNat, e \in Int] ==
    IF BitLen[m] > Precision THEN Pack(neg, Shr[m, 1], e + 1) ELSE Pack(neg, m, e)

\* the float nearest to (-1)^neg * M * 2^E whose last bit has exponent e
RoundTo[neg \in BOOLEAN, M \in BigNat, E \in Int, e \in Int] ==
    IF e <= E THEN Pack(neg, Shl[M, E - e], e) ELSE Carry[neg, ShrRound[M, e - E], e]

\* The float nearest to (-1)^neg * M * 2^E, ties to even.  A last bit of M that
\* stands for a remainder (BigDiv, BigSqrt) lies below the bits that decide.
RoundFloat[neg \in BOOLEAN, M \in BigNat, E \in Int] ==
    IF M = <<>> THEN Zero(neg)
    ELSE RoundTo[neg, M, E, Max(BitLen[M] + E - Precision, MinExp)]

\* the float nearest to (-1)^neg * (N / D) * 2^E
RoundQuot[neg \in BOOLEAN, N \in BigNat, D \in BigNat, E \in Int] ==
    IF N = <<>> THEN Zero(neg)
    ELSE LET k == Max(0, BitLen[D] - BitLen[N] + Precision + 3)
         IN  RoundFloat[neg, BigDiv[Shl[N, k], D], E - k - 1]

\* float(n) of a Python int
FromInt[n \in Int] == RoundFloat[n < 0, NatToBig[IF n < 0 THEN -n ELSE n], 0]

\* the float the decimal literal num/den is read as
FromRatio[num \in Int, den \in Nat] ==
    RoundQuot[num < 0, NatToBig[IF num < 0 THEN -num ELSE num], NatToBig[den], 0]

FNeg[x \in Float] == IF IsNaN(x) THEN x ELSE [x EXCEPT !.neg = ~@]
FAbs[x \in Float] == IF IsNaN(x) THEN x ELSE [x EXCEPT !.neg = FALSE]

\* (-1)^an * A + (-1)^bn * B, both times 2^e, where c compares A with B.  Of
\* two magnitudes with different signs the larger one gives the sign, and
\* equal ones cancel to +0.
AddMagnitudes[an \in BOOLEAN, A \in BigNat, bn \in BOOLEAN, B \in BigNat, e \in Int, c \in Int] ==
    RoundFloat[IF an = bn THEN an ELSE IF c = 0 THEN FALSE ELSE IF c > 0 THEN an ELSE bn,
               IF an = bn THEN BigAdd[A, B]
               ELSE IF c >= 0 THEN BigSub[A, B] ELSE BigSub[B, A],
               e]

\* the same with A given
AddShifted[an \in BOOLEAN, A \in BigNat, bn \in BOOLEAN, B \in BigNat, e \in Int] ==
    AddMagnitudes[an, A, bn, B, e, BigCmp[A, B]]

\* a + b for finite non-zero a and b with a.e >= b.e.  When b lies more than
\* 2 * Precision bits below a, the sum rounds to a.
AddAligned[a \in Float, b \in Float] ==
    IF a.e - b.e > 2 * Precision THEN a
    ELSE AddShifted[a.neg, Shl[a.m, a.e - b.e], b.neg, b.m, b.e]

FAdd[a \in Float, b \in Float] ==
    IF IsNaN(a) \/ IsNaN(b) THEN NaN
    ELSE IF IsInf(a) THEN (IF IsInf(b) /\ a.neg # b.neg THEN NaN ELSE a)
    ELSE IF IsInf(b) THEN b
    ELSE IF IsZero(a) THEN (IF IsZero(b) THEN Zero(a.neg /\ b.neg) ELSE b)
    ELSE IF IsZero(b) THEN a
    ELSE AddAligned[IF a.e >= b.e THEN a ELSE b, IF a.e >= b.e THEN b ELSE a]

FSub[a \in Float, b \in Float] == FAdd[a, FNeg[b]]

FMul[a \in Float, b \in Float] ==
    IF IsNaN(a) \/ IsNaN(b) THEN NaN
    ELSE IF IsInf(a) \/ IsInf(b)
         THEN (IF IsZero(a) \/ IsZero(b) THEN NaN ELSE Inf(a.neg # b.neg))
    ELSE RoundFloat[a.neg # b.neg, BigMul[a.m, b.m], a.e + b.e]

\* numpy's true_divide: a division by zero gives inf or nan, never an exception
FDiv[a \in Float, b \in Float] ==
    IF IsNaN(a) \/ IsNaN(b) THEN NaN
    ELSE IF IsInf(a) THEN (IF IsInf(b) THEN NaN ELSE Inf(a.neg # b.neg))
    ELSE IF IsInf(b) THEN Zero(a.neg # b.neg)
    ELSE IF IsZero(b) THEN (IF IsZero(a) THEN NaN ELSE Inf(a.neg # b.neg))
    ELSE RoundQuot[a.neg # b.neg, a.m, b.m, a.e - b.e]

FSqrt[a \in Float] ==
    IF IsNaN(a) \/ IsZero(a) THEN a
    ELSE IF a.neg THEN NaN
    ELSE IF IsInf(a) THEN a
    ELSE LET k0 == Max(0, 2 * Precision + 4 - BitLen[a.m])
             k == k0 + ((a.e - k0) % 2)
         IN  RoundFloat[FALSE, BigSqrt[Shl[a.m, k]], ((a.e - k) \div 2) - 1]

\* -1, 0, 1 as |a| < |b|, |a| = |b|, |a| > |b|, for a and b not NaN
CmpMag(a, b) ==
    IF IsInf(a) \/ IsInf(b)
    THEN (IF IsInf(a) /\ IsInf(b) THEN 0 ELSE IF IsInf(a) THEN 1 ELSE -1)
    ELSE IF IsZero(a) \/ IsZero(b)
    THEN (IF IsZero(a) /\ IsZero(b) THEN 0 ELSE IF IsZero(a) THEN -1 ELSE 1)
    ELSE IF a.e # b.e THEN (IF a.e < b.e THEN -1 ELSE 1)
    ELSE BigCmp[a.m, b.m]

\* -1, 0, 1 as a < b, a = b, a > b, for a and b not NaN
FCmp[a \in Float, b \in Float] ==
    IF IsZero(a) /\ IsZero(b) THEN 0
    ELSE IF a.neg # b.neg THEN (IF a.neg THEN -1 ELSE 1)
    ELSE IF a.neg THEN -CmpMag(a, b) ELSE CmpMag(a, b)

\* the comparison operators: every comparison with NaN is false
FEq[a \in Float, b \in Float] == ~IsNaN(a) /\ ~IsNaN(b) /\ FCmp[a, b] = 0
FLt[a \in Float, b \in Float] == ~IsNaN(a) /\ ~IsNaN(b) /\ FCmp[a, b] < 0
FLe[a \in Float, b \in Float] == ~IsNaN(a) /\ ~IsNaN(b) /\ FCmp[a, b] <= 0
FGt[a \in Float, b \in Float] == FLt[b, a]

\* Python's round(x, 4): the decimal with four places nearest to x, ties to
\* even, and then the float nearest to that decimal
Round4[x \in Float] ==
    IF ~IsFinite(x) \/ IsZero(x) \/ x.e >= 0 THEN x
    ELSE RoundQuot[x.neg, ShrRound[BigMulSmall[x.m, 10000], -x.e], NatToBig[10000], 0]

(***************************************************************************)
(* numpy on one-dimensional float64 arrays, held as sequences of floats.   *)
(***************************************************************************)
Array == Seq(Float)

\* np.add.reduce: arrays of fewer than 8 elements are summed from left to
\* right, starting from zero
SumFrom[a \in Array, i \in Nat, acc \in Float] ==
    IF i > Len(a) THEN acc ELSE SumFrom[a, i + 1, FAdd[acc, a[i]]]

np_sum[a \in Array] == SumFrom[a, 1, Zero(FALSE)]

\* np.mean: the sum divided by the number of elements
np_mean[a \in Array] == FDiv[np_sum[a], FromInt[Len(a)]]

\* np.abs, a - c and a * a, element by element
np_abs[a \in Array] == [i \in 1 .. Len(a) |-> FAbs[a[i]]]
np_minus[a \in Array, c \in Float] == [i \in 1 .. Len(a) |-> FSub[a[i], c]]
np_square[a \in Array] == [i \in 1 .. Len(a) |-> FMul[a[i], a[i]]]

\* np.median: NaN when the array holds a NaN; else the mean of the middle
\* element (odd length) or of the two middle elements (even length) of the
\* sorted array
np_median[a \in Array] ==
    IF \E i \in 1 .. Len(a) : IsNaN(a[i]) THEN NaN
    ELSE np_mean[SubSeq(SortSeq(a, LAMBDA u, v : FLt[u, v]),
                        (Len(a) + 1) \div 2, Len(a) \div 2 + 1)]

\* np.std: the square root of the mean of the squared deviations from the
\* mean (population standard deviation, ddof = 0)
np_std[a \in Array] == FSqrt[np_mean[np_square[np_minus[a, np_mean[a]]]]]

(***************************************************************************)
(* src/src/detector.py                                                     *)
(***************************************************************************)
None == [type |-> "NoneType"]

\* AnomalyDetector.CONSISTENCY_CONSTANT = 0.6745
CONSISTENCY_CONSTANT == FromRatio[6745, 10000]

\* the default of __init__'s parameter threshold: 3.5
DefaultThreshold == FromRatio[35, 10]

\* a / c and c * a, element by element
np_over[a \in Array, c \in Float] == [i \in 1 .. Len(a) |-> FDiv[a[i], c]]
np_times[c \in Float, a \in Array] == [i \in 1 .. Len(a) |-> FMul[c, a[i]]]

\* the branch mad == 0 of _modified_z_scores after std is known
FallbackGiven[data \in Array, std \in Float] ==
    IF FEq[std, Zero(FALSE)]
    THEN [i \in 1 .. Len(data) |-> Zero(FALSE)]
    ELSE np_over[np_abs[np_minus[data, np_mean[data]]], std]

\* the branches of _modified_z_scores after median and mad are known
ScoresGiven[data \in Array, median \in Float, mad \in Float] ==
    IF FEq[mad, Zero(FALSE)]
    THEN FallbackGiven[data, np_std[data]]
    ELSE np_abs[np_over[np_times[CONSISTENCY_CONSTANT, np_minus[data, median]], mad]]

MadGiven[data \in Array, median \in Float] ==
    ScoresGiven[data, median, np_median[np_abs[np_minus[data, median]]]]

\* AnomalyDetector._modified_z_scores
modified_z_scores[data \in Array] == MadGiven[data, np_median[data]]

\* a raised exception, as the outcome of a call
Raise(exception) == [raised |-> exception]
IsRaised(outcome) == "raised" \in DOMAIN outcome

\* AnomalyDetector.__init__: the new instance, or ValueError.  NaN <= 0 is
\* false, as every comparison with NaN is.
AnomalyDetector(threshold) ==
    IF FLe[threshold, Zero(FALSE)]
    THEN Raise("ValueError")
    ELSE [threshold |-> threshold]

\* np.array([r["temperature"] for r in readings], dtype=float)
temperatures(readings) == [i \in 1 .. Len(readings) |-> readings[i].temperature]
vibrations(readings) == [i \in 1 .. Len(readings) |-> readings[i].vibration]

ExceedsOrEquals(score, threshold) == FLe[threshold, score]
Below(score, threshold) == FLt[score, threshold]
\* temp_scores[i] > self.threshold
Exceeds(score, threshold) == FGt[score, threshold]

\* the list anomalous_metrics of one reading
Metrics(temp_score, vib_score, threshold) ==
    (IF Exceeds(temp_score, threshold) THEN <<"temperature">> ELSE <<>>)
        \o (IF Exceeds(vib_score, threshold) THEN <<"vibration">> ELSE <<>>)

\* the dict appended to results for one reading
Result(reading, temp_score, vib_score, threshold) ==
    LET anomalous_metrics == Metrics(temp_score, vib_score, threshold)
    IN  [sensor_id |-> reading.sensor_id,
         temperature |-> reading.temperature,
         vibration |-> reading.vibration,
         is_anomaly |-> Len(anomalous_metrics) > 0,
         anomaly_scores |-> [temperature |-> Round4[temp_score],
                             vibration |-> Round4[vib_score]],
         anomalous_metrics |-> anomalous_metrics]

AnomalousResults(self, readings, temp_scores, vib_scores) ==
    SelectSeq([i \in 1 .. Len(readings) |->
                  Result(readings[i], temp_scores[i], vib_scores[i], self.threshold)],
              LAMBDA r : r.is_anomaly)
\* the loop over enumerate(readings)
Results(self, readings, temp_scores, vib_scores) ==
    [i \in 1 .. Len(readings) |->
        Result(readings[i], temp_scores[i], vib_scores[i], self.threshold)]

FrameWritingThreshold(self, readings, temp_scores, vib_scores, results) ==
    [self |-> [self EXCEPT !.threshold = FAdd[@, @]], readings |-> readings,
     temp_scores |-> temp_scores, vib_scores |-> vib_scores, results |-> results]
\* The frame of a call of detect when it returns: the receiver and the
\* argument as the call leaves them, the two score arrays and the returned
\* list.  detect assigns to no attribute of self and to no item of readings.
Frame(self, readings, temp_scores, vib_scores, results) ==
    [self |-> self, readings |-> readings, temp_scores |-> temp_scores,
     vib_scores |-> vib_scores, results |-> results]

Reading == [sensor_id : STRING, temperature : Float, vibration : Float]
Batch == Seq(Reading)
Detector == [threshold : Float]

ScoredFrame[self \in Detector, readings \in Batch, temp_scores \in Array, vib_scores \in Array] ==
    Frame(self, readings, temp_scores, vib_scores,
          Results(self, readings, temp_scores, vib_scores))

\* AnomalyDetector.detect
detect(self, readings) ==
    IF readings = <<>>
    THEN Frame(self, readings, <<>>, <<>>, <<>>)
    ELSE ScoredFrame[self, readings,
                     modified_z_scores[temperatures(readings)],
                     modified_z_scores[vibrations(readings)]]

(***************************************************************************)
(* src/src/lambda_function.py                                              *)
(*                                                                         *)
(* The values whose type the handler tests carry it in a field: a str is   *)
(* a JSON text, given by whether it is valid JSON and by the document it   *)
(* encodes; a list has its items, a dict its items by key.  A reading is   *)
(* a dict from keys to values, or None for an item of the list that is no  *)
(* dict (the JSON null).                                                   *)
(***************************************************************************)
Str(valid, value) == [type |-> "str", valid |-> valid, value |-> value]
List(items) == [type |-> "list", items |-> items]
Dict(items) == [type |-> "dict", items |-> items]

\* json.loads: the document, or JSONDecodeError
json_loads(text) == IF text.valid THEN text.value ELSE Raise("JSONDecodeError")

\* json.dumps: the JSON text of a document
json_dumps(document) == Str(TRUE, document)

\* _build_response
build_response(status_code, body) ==
    [statusCode |-> status_code,
     headers |-> ("Content-Type" :> "application/json"),
     body |-> json_dumps(Dict(body))]

\* Python's truth value of None, of a list and of a dict
Truthy(value) == value.type # "NoneType" /\ DOMAIN value.items # {}

required_keys == {"sensor_id", "temperature", "vibration"}

\* sorted(missing)
SortedKeys(keys) ==
    SelectSeq(<<"sensor_id", "temperature", "vibration">>, LAMBDA k : k \in keys)

\* The loop over enumerate(readings), from index idx (counted from 1 here, from
\* 0 in the message): None when no reading lacks a key, else the response of
\* the first one that does, or the AttributeError of r.keys() on a reading
\* that is no dict.
RECURSIVE CheckKeys(_, _)
CheckKeys(readings, idx) ==
    IF idx > Len(readings) THEN None
    ELSE IF readings[idx] = None THEN Raise("AttributeError")
    ELSE LET missing == required_keys \ DOMAIN readings[idx]
         IN  IF missing # {}
             THEN build_response(400,
                      [error |-> [text |-> "Reading at index {idx} is missing keys: {sorted(missing)}",
                                  idx |-> idx - 1, missing |-> SortedKeys(missing)]])
             ELSE CheckKeys(readings, idx + 1)

CountAll(results) == Len(results)
\* sum(1 for r in results if r["is_anomaly"])
anomaly_count(results) == Cardinality({i \in 1 .. Len(results) : results[i].is_anomaly})

\* the handler's outcome: its response, the module's detector as the call
\* leaves it and the number of calls of detect it made
Outcome(response, detector_after, calls) ==
    [response |-> response, detector |-> detector_after, detect_calls |-> calls]

\* lines 64-73: the call of detect and the success response
Respond(frame) ==
    Outcome(build_response(200,
                [total_readings |-> Len(frame.results),
                 anomalies_detected |-> anomaly_count(frame.results),
                 results |-> List(frame.results)]),
            frame.self, 1)

\* the two except clauses
Except(exception, module_detector) ==
    IF exception = "JSONDecodeError"
    THEN Outcome(build_response(400, [error |-> [text |-> "Malformed JSON in request body"]]),
                 module_detector, 0)
    ELSE Outcome(build_response(500, [error |-> [text |-> "Internal server error"]]),
                 module_detector, 0)

\* lambda_handler(event, context), run with the module-level detector
lambda_handler(event, module_detector) ==
    LET got == IF "body" \in DOMAIN event THEN event.body ELSE Str(TRUE, Dict(<<>>))
        body == IF got.type = "str" THEN json_loads(got) ELSE got
    IN  IF IsRaised(body) THEN Except(body.raised, module_detector)
        ELSE IF body.type # "dict" THEN Except("AttributeError", module_detector)
        ELSE LET readings == IF "readings" \in DOMAIN body.items
                             THEN body.items.readings ELSE None
             IN  IF ~Truthy(readings) \/ readings.type # "list"
                 THEN Outcome(build_response(400,
                          [error |-> [text |-> "Request must include a non-empty 'readings' list"]]),
                          module_detector, 0)
                 ELSE LET checked == CheckKeys(readings.items, 1)
                      IN  IF IsRaised(checked) THEN Except(checked.raised, module_detector)
                          ELSE IF checked # None THEN Outcome(checked, module_detector, 0)
                          ELSE Respond(detect(module_detector, readings.items))

(***************************************************************************)
(* The state: the module-level detector of lambda_function.py, and a       *)
(* caller of the two entry points who either uses the class directly       *)
(* (constructs an instance, fills a batch, calls detect) or sends events   *)
(* carrying the batch to the handler.                                      *)
(***************************************************************************)
VARIABLES
    detector,        \* lambda_function.detector
    threshold_arg,   \* the argument of the caller's last constructor call, or None
    raised,          \* the exception that call raised, or ""
    instance,        \* the AnomalyDetector the caller holds, or None
    readings,        \* the caller's batch
    call,            \* the frame of the caller's last call of detect, or None
    event,           \* the last event sent to the handler, or None
    response,        \* the handler's response to it, or None
    detect_calls     \* the calls of detect the handler made for it

vars == <<detector, threshold_arg, raised, instance, readings, call,
          event, response, detect_calls>>

MaxLen == 3          \* longest batch

\* sys.float_info.max, 1.7976931348623157e308
FloatMax == [cls |-> "fin", neg |-> FALSE, m |-> <<32767, 32767, 32767, 255>>, e |-> MaxExp]

\* the thresholds the caller constructs detectors with: -1, 0, NaN, 1.0, 3.5
Thresholds == {FromInt[-1], Zero(FALSE), NaN, FromInt[1], DefaultThreshold}

\* the readings the caller fills batches with
SensorReadings ==
    {[sensor_id |-> "s1", temperature |-> FromRatio[1, 10], vibration |-> FromRatio[5, 10]],
     [sensor_id |-> "s2", temperature |-> FromInt[7], vibration |-> FromRatio[95, 10]],
     [sensor_id |-> "s1", temperature |-> FloatMax, vibration |-> FromRatio[5, 10]]}

EventKinds == {"no body", "null body", "malformed", "json null", "no readings",
               "null readings", "dict readings", "text", "decoded",
               "missing keys", "null item"}

\* the event of each kind that carries the batch
Event(kind, batch) ==
    CASE kind = "no body" -> [path |-> "/detect"]
      [] kind = "null body" -> [body |-> None]
      [] kind = "malformed" -> [body |-> Str(FALSE, None)]
      [] kind = "json null" -> [body |-> Str(TRUE, None)]
      [] kind = "no readings" -> [body |-> Str(TRUE, Dict([data |-> List(batch)]))]
      [] kind = "null readings" -> [body |-> Str(TRUE, Dict([readings |-> None]))]
      [] kind = "dict readings" ->
            [body |-> Str(TRUE, Dict([readings |-> Dict([sensor_id |-> "s1"])]))]
      [] kind = "text" -> [body |-> Str(TRUE, Dict([readings |-> List(batch)]))]
      [] kind = "decoded" -> [body |-> Dict([readings |-> List(batch)])]
      [] kind = "missing keys" ->
            [body |-> Str(TRUE, Dict([readings |->
                         List(Append(batch, [sensor_id |-> "s1", vibration |-> FromInt[1]]))]))]
      [] kind = "null item" ->
            [body |-> Str(TRUE, Dict([readings |-> List(Append(batch, None))]))]

\* importing lambda_function constructs the module's detector
Init ==
    /\ detector = AnomalyDetector(DefaultThreshold)
    /\ threshold_arg = None
    /\ raised = ""
    /\ instance = None
    /\ readings = <<>>
    /\ call = None
    /\ event = None
    /\ response = None
    /\ detect_calls = 0

\* instance = AnomalyDetector(threshold); a constructor that raises leaves the
\* caller without an instance
Construct(threshold) ==
    /\ response = None
    /\ LET made == AnomalyDetector(threshold)
       IN  /\ threshold_arg' = threshold
           /\ raised' = IF IsRaised(made) THEN made.raised ELSE ""
           /\ instance' = IF IsRaised(made) THEN None ELSE made
    /\ UNCHANGED <<detector, readings, call, event, response, detect_calls>>

\* readings.append(reading), before the batch is first used
AddReading(reading) ==
    /\ Len(readings) < MaxLen
    /\ call = None
    /\ response = None
    /\ readings' = Append(readings, reading)
    /\ UNCHANGED <<detector, threshold_arg, raised, instance, call, event, response,
                   detect_calls>>

\* instance.detect(readings)
Detect ==
    /\ instance # None
    /\ \E frame \in {detect(instance, readings)} :
           /\ call' = frame
           /\ instance' = frame.self
           /\ readings' = frame.readings
    /\ UNCHANGED <<detector, threshold_arg, raised, event, response, detect_calls>>

\* lambda_handler(event, None) on an event that carries the batch; the caller
\* may send the same event again
Handle(kind) ==
    /\ threshold_arg = None
    /\ \E sent \in {Event(kind, readings)} :
           /\ response = None \/ event = sent
           /\ event' = sent
           /\ \E out \in {lambda_handler(sent, detector)} :
                  /\ response' = out.response
                  /\ detector' = out.detector
                  /\ detect_calls' = out.detect_calls
    /\ UNCHANGED <<threshold_arg, raised, instance, readings, call>>

\* the caller starts over; the module and its detector stay loaded
Reset ==
    /\ threshold_arg # None \/ readings # <<>> \/ response # None
    /\ threshold_arg' = None
    /\ raised' = ""
    /\ instance' = None
    /\ readings' = <<>>
    /\ call' = None
    /\ event' = None
    /\ response' = None
    /\ detect_calls' = 0
    /\ UNCHANGED detector

Next ==
    \/ \E threshold \in Thresholds : Construct(threshold)
    \/ \E reading \in SensorReadings : AddReading(reading)
    \/ Detect
    \/ \E kind \in EventKinds : Handle(kind)
    \/ Reset

Spec == Init /\ [][Next]_vars

\* the same caller, filling batches with the readings that lie far inside the
\* range of float64 only
OrdinaryReadings == {r \in SensorReadings : ~FEq[r.temperature, FloatMax]}

NextOrdinary ==
    \/ \E threshold \in Thresholds : Construct(threshold)
    \/ \E reading \in OrdinaryReadings : AddReading(reading)
    \/ Detect
    \/ \E kind \in EventKinds : Handle(kind)
    \/ Reset

SpecOrdinary == Init /\ [][NextOrdinary]_vars
(***************************************************************************)
(* Properties.                                                             *)
(***************************************************************************)
Positive(threshold) == FGt[threshold, Zero(FALSE)]

\* C1: in every result of a call of detect on a non-empty batch with a
\* threshold t > 0, anomalous_metrics is the sub-list of <<"temperature",
\* "vibration">> of the metrics whose unrounded score is strictly greater than
\* t, and is_anomaly is true exactly when that list is not empty; a score equal
\* to t is not flagged.
FlagsAreScoresAboveThreshold ==
    (call # None /\ call.readings # <<>> /\ Positive(call.self.threshold)) =>
        \A i \in 1 .. Len(call.results) :
            LET r == call.results[i]
                t == call.self.threshold
            IN  /\ r.anomalous_metrics =
                       (IF FGt[call.temp_scores[i], t] THEN <<"temperature">> ELSE <<>>)
                           \o (IF FGt[call.vib_scores[i], t] THEN <<"vibration">> ELSE <<>>)
                /\ r.is_anomaly = (r.anomalous_metrics # <<>>)

\* a call in which a score equals the threshold and the metric is not flagged
ScoreEqualToThresholdNotFlagged ==
    /\ call # None
    /\ Positive(call.self.threshold)
    /\ \E i \in 1 .. Len(call.results) :
          /\ FEq[call.temp_scores[i], call.self.threshold]
          /\ call.results[i].anomalous_metrics = <<>>
          /\ ~call.results[i].is_anomaly

\* C5: a call of detect on a batch of n >= 0 readings returns n results, and
\* result i carries the sensor_id, temperature and vibration of reading i of the
\* batch as it was passed; for the empty batch the result is the empty list.
ResultsEchoBatch ==
    [][(call' # None /\ call' # call) =>
          /\ Len(call'.results) = Len(readings)
          /\ \A i \in 1 .. Len(readings) :
                /\ call'.results[i].sensor_id = readings[i].sensor_id
                /\ call'.results[i].temperature = readings[i].temperature
                /\ call'.results[i].vibration = readings[i].vibration
          /\ (readings = <<>> => call'.results = <<>>)]_vars

\* a call returned results for two different readings of the same sensor_id
EchoedDuplicateSensorIds ==
    /\ call # None
    /\ Len(call.results) = Len(readings)
    /\ \E i, j \in 1 .. Len(call.results) :
          /\ i < j
          /\ call.results[i].sensor_id = call.results[j].sensor_id
          /\ call.results[i].temperature # call.results[j].temperature
          /\ call.results[j].temperature = readings[j].temperature

\* the readings and metrics a call flagged
Flagged(frame) ==
    {<<i, metric>> \in (1 .. Len(frame.results)) \X {"temperature", "vibration"} :
        \E k \in 1 .. Len(frame.results[i].anomalous_metrics) :
            frame.results[i].anomalous_metrics[k] = metric}

Anomalies(frame) == {i \in 1 .. Len(frame.results) : frame.results[i].is_anomaly}

\* C6: when detect is called on the same batch under thresholds 0 < t1 <= t2,
\* every reading and metric flagged under t2 is flagged under t1, and the count
\* of anomalous results under t1 is at least the count under t2.
LowerThresholdFlagsMore ==
    [][(/\ call # None /\ call' # None
        /\ call'.readings = call.readings
        /\ Positive(call.self.threshold) /\ Positive(call'.self.threshold)) =>
          /\ FLe[call.self.threshold, call'.self.threshold] =>
                /\ Flagged(call') \subseteq Flagged(call)
                /\ Cardinality(Anomalies(call')) <= Cardinality(Anomalies(call))
          /\ FLe[call'.self.threshold, call.self.threshold] =>
                /\ Flagged(call) \subseteq Flagged(call')
                /\ Cardinality(Anomalies(call)) <= Cardinality(Anomalies(call'))]_vars

\* the batch was scored under 3.5 with a reading left unflagged whose score
\* exceeds the threshold of the detector the caller now holds
UnflaggedUnderHigherThreshold ==
    /\ call # None /\ instance # None
    /\ call.readings = readings
    /\ Positive(instance.threshold)
    /\ FLt[instance.threshold, call.self.threshold]
    /\ \E i \in 1 .. Len(call.results) :
          /\ ~call.results[i].is_anomaly
          /\ FGt[call.temp_scores[i], instance.threshold]

\* C2: a call of detect on a non-empty well-formed batch raises no exception
\* and every score, as computed and as returned, is defined (not NaN) and not
\* negative.
ScoresDefinedAndNonNegative ==
    (call # None /\ call.readings # <<>>) =>
        /\ Len(call.results) = Len(call.readings)
        /\ \A i \in 1 .. Len(call.results) :
              /\ FLe[Zero(FALSE), call.temp_scores[i]]
              /\ FLe[Zero(FALSE), call.vib_scores[i]]
              /\ FLe[Zero(FALSE), call.results[i].anomaly_scores.temperature]
              /\ FLe[Zero(FALSE), call.results[i].anomaly_scores.vibration]

AllEqual(data) == \A i, j \in 1 .. Len(data) : FEq[data[i], data[j]]

\* C3: a call of detect with a threshold t > 0 on a non-empty batch whose
\* temperatures are all equal and whose vibrations are all equal returns scores
\* that are all 0 and flags no reading.
IdenticalValuesScoreZero ==
    (/\ call # None /\ call.readings # <<>>
     /\ Positive(call.self.threshold)
     /\ AllEqual(temperatures(call.readings))
     /\ AllEqual(vibrations(call.readings))) =>
        \A i \in 1 .. Len(call.results) :
            /\ FEq[call.results[i].anomaly_scores.temperature, Zero(FALSE)]
            /\ FEq[call.results[i].anomaly_scores.vibration, Zero(FALSE)]
            /\ ~call.results[i].is_anomaly

\* reading k is the only one whose temperature differs from the others'
OnlySpike(data, k) ==
    /\ \A i, j \in (1 .. Len(data)) \ {k} : FEq[data[i], data[j]]
    /\ \A i \in (1 .. Len(data)) \ {k} : ~FEq[data[i], data[k]]

\* C4: a call of detect with the default threshold 3.5 on a batch of n >= 3
\* readings whose temperatures are all equal but one flags that one reading on
\* temperature and flags no other reading on temperature.
SingleSpikeFlagged ==
    (/\ call # None /\ Len(call.readings) >= 3
     /\ FEq[call.self.threshold, DefaultThreshold]) =>
        \A k \in 1 .. Len(call.readings) :
            OnlySpike(temperatures(call.readings), k) =>
                /\ call.results[k].is_anomaly
                /\ <<k, "temperature">> \in Flagged(call)
                /\ \A i \in (1 .. Len(call.readings)) \ {k} :
                      <<i, "temperature">> \notin Flagged(call)

\* C7: a constructor call with threshold <= 0 raises and leaves the caller
\* without an instance, one with threshold > 0 gives an instance that stores
\* the threshold as given, and every detector that detect can be called on,
\* the caller's and the module's, has a threshold > 0.
EveryDetectorThresholdPositive ==
    /\ threshold_arg # None =>
          /\ FLe[threshold_arg, Zero(FALSE)] => (raised = "ValueError" /\ instance = None)
          /\ Positive(threshold_arg) =>
                (raised = "" /\ instance = [threshold |-> threshold_arg])
    /\ instance # None => Positive(instance.threshold)
    /\ Positive(detector.threshold)

Document(ev) ==
    IF "body" \notin DOMAIN ev THEN Dict(<<>>)
    ELSE IF ev.body.type # "str" THEN ev.body
    ELSE IF ev.body.valid THEN ev.body.value
    ELSE None

HasReadingsList(ev) ==
    /\ Document(ev).type = "dict"
    /\ "readings" \in DOMAIN Document(ev).items
    /\ Document(ev).items.readings.type = "list"

Submitted(ev) == Document(ev).items.readings.items

LacksKey(reading) == reading = None \/ ~(required_keys \subseteq DOMAIN reading)

\* the requests that are to be refused: the body is not JSON, or holds no
\* readings field, or one that is empty or no list, or a list with a reading
\* that lacks a required key
Malformed(ev) ==
    \/ ~HasReadingsList(ev)
    \/ Submitted(ev) = <<>>
    \/ \E i \in 1 .. Len(Submitted(ev)) : LacksKey(Submitted(ev)[i])

\* C9: the handler answers every request whose body is not JSON, or whose
\* readings field is missing, empty or not a list, or in which a reading lacks
\* one of the keys sensor_id, temperature, vibration, with status 400 and an
\* error message, and calls detect for none of them.
MalformedRequestsGet400 ==
    (response # None /\ Malformed(event)) =>
        /\ response.statusCode = 400
        /\ "error" \in DOMAIN json_loads(response.body).items
        /\ detect_calls = 0

\* C10: the handler answers every request whose body holds a non-empty list of
\* readings that each have sensor_id, temperature and vibration with status
\* 200 after exactly one call of detect; total_readings is the number of
\* readings submitted, anomalies_detected the number of results whose
\* is_anomaly is true, and the results are those of the readings in the order
\* submitted.
ValidRequestsGet200 ==
    (response # None /\ ~Malformed(event)) =>
        LET body == json_loads(response.body).items
        IN  /\ detect_calls = 1
            /\ response.statusCode = 200
            /\ body.total_readings = Len(Submitted(event))
            /\ Len(body.results.items) = Len(Submitted(event))
            /\ body.anomalies_detected =
                   Cardinality({i \in 1 .. Len(body.results.items) :
                                   body.results.items[i].is_anomaly})
            /\ \A i \in 1 .. Len(Submitted(event)) :
                  /\ body.results.items[i].sensor_id = Submitted(event)[i].sensor_id
                  /\ body.results.items[i].temperature = Submitted(event)[i].temperature
                  /\ body.results.items[i].vibration = Submitted(event)[i].vibration

\* a response 200 that reports three readings, some anomalous and some not
ResponseCountsAnomalies ==
    /\ response # None
    /\ ~Malformed(event)
    /\ response.statusCode = 200
    /\ json_loads(response.body).items.total_readings = 3
    /\ json_loads(response.body).items.anomalies_detected \in 1 .. 2
=============================================================================
